---- MODULE Spec2Model ----
(***************************************************************************)
(* stock_analysis.py: a batch ETL pipeline.  extract_data downloads one   *)
(* multi-ticker frame, transform_data cleans it per ticker (forward fill), *)
(* derives the 50-observation rolling mean and deviation of Close, drops   *)
(* the rows with an undefined value and concatenates the per-ticker        *)
(* frames, load_to_sql replaces the table stock_trends, generate_report    *)
(* plots the rows of AAPL.                                                 *)
(*                                                                         *)
(* Numbers.  Prices are positive integers.  A rolling mean is kept as the  *)
(* exact fraction num/den (den = number of observations in the window), a  *)
(* rolling deviation as the exact fraction of its square, the sample       *)
(* variance (n*ssq - sum^2) / (n*(n-1)).  A fraction with den = 0 is NaN.  *)
(* A missing price is NaN (-1).                                            *)
(***************************************************************************)
EXTENDS Integers, Sequences, FiniteSets, TLC

\* rolling(window=50): the window, which is also min_periods
Window == 50

\* a missing observation of a price field
NaN == -1

\* the undefined value of a derived column
NaNQ == [num |-> 0, den |-> 0]

\* ---------------------------------------------------------------- bounds
\* leading missing observations of a ticker: 0..MaxLead
MaxLead == 1
\* length of the gap inside a ticker's series, and of the one at its end: 0..MaxGap
MaxGap == 1
\* runs of the pipeline over the same provider data and the same database
MaxRuns == 2

\* ------------------------------------------------------- the configuration
\* the requested universe; AAPL is the ticker generate_report plots
Universe == {"AAPL", "TCS.NS"}

example_ticker == "AAPL"

Fields == {"Close", "Volume"}

RECURSIVE Perms(_)
Perms(S) ==
    IF S = {} THEN {<<>>}
    ELSE UNION {{<<x>> \o p : p \in Perms(S \ {x})} : x \in S}

\* ------------------------------------------------ what the provider holds
\* One calendar for the whole request; a ticker that did not trade on a date
\* has every field missing on that date (the frames are outer-joined on date).
Lens == {0, Window - 1, Window, Window + 1, 2 * Window}

Absent == [present |-> FALSE, lead |-> 0, gap |-> 0]

Shapes ==
    {[present |-> TRUE, lead |-> l, gap |-> g] : l \in 0..MaxLead, g \in 0..MaxGap}

ShapeChoices == {Absent} \cup Shapes

TickerBase(t) == IF t = example_ticker THEN 10 ELSE 20

Observed(t, f, i) ==
    IF f = "Close" THEN TickerBase(t) + ((3 * i) % 7) ELSE 100 + (i % 5)

\* the dates on which the ticker did not trade: the first sh.lead dates (not yet
\* listed), sh.gap dates after its second trading day, and the last sh.gap dates
Missing(L, sh, i) ==
    \/ i <= sh.lead
    \/ sh.lead + 2 <= i /\ i < sh.lead + 2 + sh.gap
    \/ i > L - sh.gap

\* yf.download(tickers, period='2y', group_by='ticker'): a frame with one block of
\* columns per ticker the provider answered for, all on one date index 1..len
Download(p) ==
    [len |-> p.len,
     cols |-> [t \in {u \in Universe : p.shape[u].present} |->
                 [i \in 1..p.len |->
                    [f \in Fields |->
                       IF Missing(p.len, p.shape[t], i) THEN NaN
                       ELSE Observed(t, f, i)]]]]

\* pd.DataFrame()
EmptyFrame == [len |-> 0, cols |-> [t \in {} |-> <<>>]]

\* DataFrame.empty: some axis has length 0
IsEmpty(frame) == frame.len = 0 \/ DOMAIN frame.cols = {}

\* ------------------------------------------------------------- cleaning
\* a row whose every field is missing
NaNRow == [f \in Fields |-> NaN]

\* variant: nothing is carried down (the frame is not filled)
FillRowNoCarry(row, carry) == row

\* one step of the fill down a column: a valid value is kept and becomes the
\* value carried down, a missing one takes the value carried so far
FillRow(row, carry) ==
    [f \in Fields |-> IF row[f] # NaN THEN row[f] ELSE carry[f]]

\* the fill over the dates lo..hi, entered with the values carried from above
RECURSIVE FillRange(_, _, _, _)
FillRange(df, lo, hi, carry) ==
    IF lo > hi THEN <<>>
    ELSE IF lo = hi THEN <<FillRow(df[lo], carry)>>
    ELSE LET mid == (lo + hi) \div 2
             upper == FillRange(df, lo, mid, carry)
         IN  upper \o FillRange(df, mid + 1, hi, upper[Len(upper)])

\* DataFrame.ffill(): per column, a missing value takes the last valid value
\* above it; with nothing above it, it stays missing
Ffill(df) == FillRange(df, 1, Len(df), NaNRow)

\* ------------------------------------------------------ rolling statistics
\* Series.rolling(window): one pass over the column; each observation is added
\* to the running count, sum and sum of squares when it enters the window and
\* removed when it leaves; a missing one is neither added nor removed.
ZeroAcc == [nobs |-> 0, sum |-> 0, ssq |-> 0]

AddObs(acc, x) ==
    IF x = NaN THEN acc
    ELSE [nobs |-> acc.nobs + 1, sum |-> acc.sum + x, ssq |-> acc.ssq + x * x]

RemoveObs(acc, x) ==
    IF x = NaN THEN acc
    ELSE [nobs |-> acc.nobs - 1, sum |-> acc.sum - x, ssq |-> acc.ssq - x * x]

\* variant: the observation leaves one date late (a window of 51)
LeavingLate(x, i) == IF i > Window + 1 THEN x[i - Window - 1] ELSE NaN

\* the observation that leaves the window when date i enters it
Leaving(x, i) == IF i > Window THEN x[i - Window] ELSE NaN

\* the pass over the dates lo..hi, entered with the statistics acc of date lo-1:
\* the statistics of the window at each of these dates
RECURSIVE RollRange(_, _, _, _)
RollRange(x, lo, hi, acc) ==
    IF lo > hi THEN <<>>
    ELSE IF lo = hi THEN <<RemoveObs(AddObs(acc, x[lo]), Leaving(x, lo))>>
    ELSE LET mid == (lo + hi) \div 2
             upper == RollRange(x, lo, mid, acc)
         IN  upper \o RollRange(x, mid + 1, hi, upper[Len(upper)])

Rolling(x) == RollRange(x, 1, Len(x), ZeroAcc)

\* .mean(): defined once min_periods = window observations are in the window
RollMean(acc) ==
    IF acc.nobs >= Window THEN [num |-> acc.sum, den |-> acc.nobs] ELSE NaNQ

\* .std(): ddof = 1, defined under the same rule; kept as its square
RollStd(acc) ==
    IF acc.nobs >= Window /\ acc.nobs > 1
    THEN [num |-> acc.nobs * acc.ssq - acc.sum * acc.sum,
          den |-> acc.nobs * (acc.nobs - 1)]
    ELSE NaNQ

\* ------------------------------------------------- one ticker (the try body)
\* the rows lo..hi of df[['Ticker', 'Close', 'MA50', 'Volatility']], on the date
\* index, from the filled frame and the rolling statistics of its Close
RECURSIVE FeaturedRange(_, _, _, _, _)
FeaturedRange(df, acc, ticker, lo, hi) ==
    IF lo > hi THEN <<>>
    ELSE IF lo = hi
    THEN <<[Date |-> lo, Ticker |-> ticker, Close |-> df[lo]["Close"],
            MA50 |-> RollMean(acc[lo]), Volatility |-> RollStd(acc[lo])]>>
    ELSE LET mid == (lo + hi) \div 2
         IN  FeaturedRange(df, acc, ticker, lo, mid)
             \o FeaturedRange(df, acc, ticker, mid + 1, hi)

CloseOf(df) == [i \in 1..Len(df) |-> df[i]["Close"]]

Featured(df, ticker) ==
    FeaturedRange(df, Rolling(CloseOf(df)), ticker, 1, Len(df))

HasNaN(row) == row.Close = NaN \/ row.MA50.den = 0 \/ row.Volatility.den = 0

\* variant: the frame is appended without dropna()
DropNaNone(rows) == rows

\* DataFrame.dropna(): the rows without a missing value, in order
DropNa(rows) == SelectSeq(rows, LAMBDA r : ~HasNaN(r))

\* raw_data[ticker].copy() ... df.dropna()
ProcessOne(raw, ticker) == DropNa(Featured(Ffill(raw.cols[ticker]), ticker))

\* for ticker in tickers: ... ; pd.concat(processed_list), as a function of its
\* arguments
RECURSIVE Frames(_, _)
Frames(raw, tickers) ==
    IF tickers = <<>> THEN <<>>
    ELSE IF Head(tickers) \in DOMAIN raw.cols
    THEN <<ProcessOne(raw, Head(tickers))>> \o Frames(raw, Tail(tickers))
    ELSE Frames(raw, Tail(tickers))

\* raw_data[ticker] raises KeyError
KeyError(raw, ticker) == ticker \notin DOMAIN raw.cols

\* variant: the fill is done in place, on the caller's frame
RawAfterInplaceFill(raw, ticker) ==
    [raw EXCEPT !.cols[ticker] = Ffill(raw.cols[ticker])]

\* what the loop body leaves of the caller's frame: it works on a copy
RawAfter(raw, ticker) == raw

RECURSIVE Concat(_)
Concat(frames) ==
    IF frames = <<>> THEN <<>> ELSE Head(frames) \o Concat(Tail(frames))

TransformData(raw, tickers) == Concat(Frames(raw, tickers))

\* -------------------------------------------------------------- the state
VARIABLES
    provider,        \* what the provider holds (frozen over the runs)
    TICKERS,         \* the configured list, in processing order
    run,             \* number of the current run
    pc,              \* where the script is
    raw_data,        \* extract_data's result
    k,               \* position of the loop of transform_data in TICKERS
    df,              \* the loop's frame of the current ticker
    processed_list,  \* transform_data's list of per-ticker frames
    clean_df,        \* transform_data's result
    report_df,       \* the frame generate_report was called with
    out,             \* what the run has printed
    sink,            \* table stock_trends of market_data.db
    chart,           \* reports/AAPL_analysis.png
    prev             \* how the previous run ended

vars ==
    <<provider, TICKERS, run, pc, raw_data, k, df, processed_list, clean_df,
      report_df, out, sink, chart, prev>>

NoRows == [called |-> FALSE, rows |-> <<>>]

NoTable == [exists |-> FALSE, rows |-> <<>>]

NoPrev == [run |-> 0, transformed |-> FALSE, clean |-> <<>>,
           committed |-> FALSE, sink |-> NoTable]

Msg(m) == [msg |-> m, ticker |-> ""]

Printed(m) == \E j \in 1..Len(out) : out[j].msg = m

Init ==
    /\ provider \in [len : Lens, shape : [Universe -> ShapeChoices]]
    /\ TICKERS \in Perms(Universe)
    /\ run = 1
    /\ pc = "extract"
    /\ raw_data = EmptyFrame
    /\ k = 1
    /\ df = <<>>
    /\ processed_list = <<>>
    /\ clean_df = <<>>
    /\ report_df = NoRows
    /\ out = <<>>
    /\ sink = NoTable
    /\ chart = NoTable
    /\ prev = NoPrev

\* ------------------------------------------------------------ extraction
extract_data_ok ==
    /\ pc = "extract"
    /\ raw_data' = Download(provider)
    /\ out' = out \o <<Msg("download"), Msg("download ok")>>
    /\ pc' = "gate_raw"
    /\ UNCHANGED <<provider, TICKERS, run, k, df, processed_list, clean_df,
                   report_df, sink, chart, prev>>

extract_data_fail ==
    /\ pc = "extract"
    /\ raw_data' = EmptyFrame
    /\ out' = out \o <<Msg("download"), Msg("api failure")>>
    /\ pc' = "gate_raw"
    /\ UNCHANGED <<provider, TICKERS, run, k, df, processed_list, clean_df,
                   report_df, sink, chart, prev>>

\* if not raw_data.empty:
RawGate(raw) == ~IsEmpty(raw)

main_gate_raw ==
    /\ pc = "gate_raw"
    /\ IF RawGate(raw_data)
       THEN /\ pc' = "transform"
            /\ out' = Append(out, Msg("transform"))
       ELSE /\ pc' = "final"
            /\ out' = out
    /\ k' = 1
    /\ processed_list' = <<>>
    /\ UNCHANGED <<provider, TICKERS, run, raw_data, df, clean_df, report_df,
                   sink, chart, prev>>

\* --------------------------------------------------------- transformation
\* variant: the handler reports nothing
SkipMsgSilent(ticker) == <<>>

\* print(f"Integrity Check Failed: No data found for {ticker}. Skipping...")
SkipMsg(ticker) == <<[msg |-> "no data found", ticker |-> ticker]>>

\* variant: break, the loop ends at the first missing ticker
AfterSkipBreak(i) == Len(TICKERS) + 1

\* continue: the loop goes on with the next ticker
AfterSkip(i) == i + 1

\* df = raw_data[ticker].copy(); df = df.ffill()
transform_clean ==
    /\ pc = "transform"
    /\ k <= Len(TICKERS)
    /\ ~KeyError(raw_data, TICKERS[k])
    /\ df' = Ffill(raw_data.cols[TICKERS[k]])
    /\ raw_data' = RawAfter(raw_data, TICKERS[k])
    /\ pc' = "features"
    /\ UNCHANGED <<provider, TICKERS, run, k, processed_list, clean_df,
                   report_df, out, sink, chart, prev>>

\* the new columns, the projection, processed_list.append(df.dropna())
transform_features ==
    /\ pc = "features"
    /\ df' = Featured(df, TICKERS[k])
    /\ processed_list' = Append(processed_list, DropNa(Featured(df, TICKERS[k])))
    /\ k' = k + 1
    /\ pc' = "transform"
    /\ UNCHANGED <<provider, TICKERS, run, raw_data, clean_df, report_df, out,
                   sink, chart, prev>>

\* except KeyError: print(...); continue
transform_skip ==
    /\ pc = "transform"
    /\ k <= Len(TICKERS)
    /\ KeyError(raw_data, TICKERS[k])
    /\ out' = out \o SkipMsg(TICKERS[k])
    /\ k' = AfterSkip(k)
    /\ UNCHANGED <<provider, TICKERS, run, pc, raw_data, df, processed_list,
                   clean_df, report_df, sink, chart, prev>>

transform_concat ==
    /\ pc = "transform"
    /\ k > Len(TICKERS)
    /\ IF processed_list # <<>>
       THEN /\ clean_df' = Concat(processed_list)
            /\ out' = Append(out, Msg("transform done"))
       ELSE /\ clean_df' = <<>>
            /\ out' = out
    /\ pc' = "gate_clean"
    /\ UNCHANGED <<provider, TICKERS, run, raw_data, k, df, processed_list,
                   report_df, sink, chart, prev>>

\* variant: the sinks are not gated on the consolidated table
CleanGateAlways(frame) == TRUE

\* if not clean_df.empty:
CleanGate(frame) == frame # <<>>

main_gate_clean ==
    /\ pc = "gate_clean"
    /\ pc' = IF CleanGate(clean_df) THEN "load" ELSE "final"
    /\ UNCHANGED <<provider, TICKERS, run, raw_data, k, df, processed_list,
                   clean_df, report_df, out, sink, chart, prev>>

\* ------------------------------------------------------------------ sinks
\* variant: if_exists='append'
ToSqlAppend(table, frame) == [exists |-> TRUE, rows |-> table.rows \o frame]

\* df.to_sql('stock_trends', conn, if_exists='replace')
ToSql(table, frame) == [exists |-> TRUE, rows |-> frame]

load_to_sql_ok ==
    /\ pc = "load"
    /\ sink' = ToSql(sink, clean_df)
    /\ out' = out \o <<Msg("store"), Msg("committed")>>
    /\ pc' = "report"
    /\ UNCHANGED <<provider, TICKERS, run, raw_data, k, df, processed_list,
                   clean_df, report_df, chart, prev>>

\* variant: the error of the write is raised again
AfterLoadErrorRaise == "crashed"

\* where the script goes on after the except clause of load_to_sql
AfterLoadError == "report"

\* the write raises: the table is as it was, or already dropped
load_to_sql_fail ==
    /\ pc = "load"
    /\ \E s \in {sink, NoTable} : sink' = s
    /\ out' = out \o <<Msg("store"), Msg("database error")>>
    /\ pc' = AfterLoadError
    /\ UNCHANGED <<provider, TICKERS, run, raw_data, k, df, processed_list,
                   clean_df, report_df, chart, prev>>

\* df[df['Ticker'] == example_ticker]
Subset(frame) == SelectSeq(frame, LAMBDA r : r.Ticker = example_ticker)

generate_report_ok ==
    /\ pc = "report"
    /\ Subset(clean_df) # <<>>
    /\ report_df' = [called |-> TRUE, rows |-> clean_df]
    /\ chart' = [exists |-> TRUE, rows |-> Subset(clean_df)]
    /\ out' = out \o <<Msg("report"), Msg("chart exported")>>
    /\ pc' = "final"
    /\ UNCHANGED <<provider, TICKERS, run, raw_data, k, df, processed_list,
                   clean_df, sink, prev>>

generate_report_skip ==
    /\ pc = "report"
    /\ Subset(clean_df) = <<>>
    /\ report_df' = [called |-> TRUE, rows |-> clean_df]
    /\ out' = out \o <<Msg("report"), Msg("visualization skipped")>>
    /\ pc' = "final"
    /\ UNCHANGED <<provider, TICKERS, run, raw_data, k, df, processed_list,
                   clean_df, sink, chart, prev>>

\* plt.savefig raises (no handler in generate_report, none in the script)
generate_report_raise ==
    /\ pc = "report"
    /\ Subset(clean_df) # <<>>
    /\ report_df' = [called |-> TRUE, rows |-> clean_df]
    /\ out' = Append(out, Msg("report"))
    /\ pc' = "crashed"
    /\ UNCHANGED <<provider, TICKERS, run, raw_data, k, df, processed_list,
                   clean_df, sink, chart, prev>>

main_final ==
    /\ pc = "final"
    /\ out' = Append(out, Msg("completed"))
    /\ pc' = "done"
    /\ UNCHANGED <<provider, TICKERS, run, raw_data, k, df, processed_list,
                   clean_df, report_df, sink, chart, prev>>

\* the script is started again: same provider data, same database and reports
Exited == pc \in {"done", "crashed"}

start_again ==
    /\ Exited
    /\ run < MaxRuns
    /\ prev' = [run |-> run,
                transformed |-> Printed("transform"),
                clean |-> clean_df,
                committed |-> Printed("committed"),
                sink |-> sink]
    /\ run' = run + 1
    /\ pc' = "extract"
    /\ raw_data' = EmptyFrame
    /\ k' = 1
    /\ df' = <<>>
    /\ processed_list' = <<>>
    /\ clean_df' = <<>>
    /\ report_df' = NoRows
    /\ out' = <<>>
    /\ UNCHANGED <<provider, TICKERS, sink, chart>>

Next ==
    \/ extract_data_ok
    \/ extract_data_fail
    \/ main_gate_raw
    \/ transform_clean
    \/ transform_features
    \/ transform_skip
    \/ transform_concat
    \/ main_gate_clean
    \/ load_to_sql_ok
    \/ load_to_sql_fail
    \/ generate_report_ok
    \/ generate_report_skip
    \/ generate_report_raise
    \/ main_final
    \/ start_again

Spec == Init /\ [][Next]_vars

\* ======================================================== the properties
\* Read off the raw frame, not off the transformation: the last date up to i on
\* which column f of a ticker's raw block holds a value (0: none), the Close a
\* forward fill must show on each date, and the sum of such values over dates.
RECURSIVE LastObserved(_, _, _)
LastObserved(col, f, i) ==
    IF i = 0 THEN 0
    ELSE IF col[i][f] # NaN THEN i
    ELSE LastObserved(col, f, i - 1)

PostFillClose(col) ==
    SubSeq([i \in 1..Len(col) |->
              IF LastObserved(col, "Close", i) = 0 THEN NaN
              ELSE col[LastObserved(col, "Close", i)]["Close"]],
           1, Len(col))

RECURSIVE SumOver(_, _, _)
SumOver(x, lo, hi) ==
    IF lo > hi THEN 0
    ELSE IF lo = hi THEN x[lo]
    ELSE SumOver(x, lo, (lo + hi) \div 2) + SumOver(x, (lo + hi) \div 2 + 1, hi)

\* the number of usable Close points of a raw block: dates with a post-fill value
Usable(col) == Cardinality({i \in 1..Len(col) : LastObserved(col, "Close", i) # 0})

RowSet(rows) == {rows[j] : j \in 1..Len(rows)}

RowsOf(rows, t) == SelectSeq(rows, LAMBDA r : r.Ticker = t)

PresentTickers == DOMAIN raw_data.cols

AbsentTickers == Universe \ DOMAIN raw_data.cols

\* the tickers a skip was reported for, and how often
SkippedSet == {out[j].ticker : j \in {h \in 1..Len(out) : out[h].msg = "no data found"}}

SkipCount(t) ==
    Cardinality({j \in 1..Len(out) : out[j] = [msg |-> "no data found", ticker |-> t]})

\* transform_data has returned in this run
Transformed == Printed("transform") /\ pc \notin {"transform", "features"}

\* ---------------------------------------------------------------------- C1
\* C1: every output row of a present ticker at date i carries as MA50 the mean
\* of the 50 post-fill Close values of the dates i-49..i, all of them present,
\* and no row stands at a date with fewer than 50 post-fill Close values up to
\* and including it.
C1_MA50IsMeanOfLast50 ==
    pc = "gate_clean" =>
        /\ \A j \in 1..Len(clean_df) : clean_df[j].Ticker \in PresentTickers
        /\ \A t \in PresentTickers :
             LET fc == PostFillClose(raw_data.cols[t])
             IN  \A j \in 1..Len(clean_df) :
                    clean_df[j].Ticker = t =>
                        LET r == clean_df[j]
                            i == r.Date
                        IN  /\ i \in Window..raw_data.len
                            /\ \A h \in (i - Window + 1)..i : fc[h] # NaN
                            /\ Cardinality({h \in 1..i : fc[h] # NaN}) >= Window
                            /\ r.Close = fc[i]
                            /\ r.MA50.den > 0
                            /\ r.MA50.num * Window
                                 = r.MA50.den * SumOver(fc, i - Window + 1, i)

\* a row past the first full window whose window holds a filled (not observed) value
C1_Witness ==
    /\ pc = "gate_clean"
    /\ \E j \in 1..Len(clean_df) :
          /\ clean_df[j].Date > Window
          /\ \E h \in (clean_df[j].Date - Window + 1)..clean_df[j].Date :
                raw_data.cols[clean_df[j].Ticker][h]["Close"] = NaN

\* ---------------------------------------------------------------------- C2
\* C2: a present ticker with n usable Close points contributes max(0, n-49)
\* rows, all tagged with it: none for n = 49, one for n = 50, the 51 rows of the
\* dates 50..100 for n = 100; no row carries another tag.
C2_RowCount ==
    pc = "gate_clean" =>
        /\ \A j \in 1..Len(clean_df) : clean_df[j].Ticker \in PresentTickers
        /\ \A t \in PresentTickers :
             LET n == Usable(raw_data.cols[t])
                 mine == RowsOf(clean_df, t)
             IN  /\ Len(mine) = IF n > Window - 1 THEN n - (Window - 1) ELSE 0
                 /\ n = 49 => Len(mine) = 0
                 /\ n = 50 => Len(mine) = 1
                 /\ n = 100 =>
                       /\ Len(mine) = 51
                       /\ {mine[j].Date : j \in 1..Len(mine)} = 50..100

\* one ticker with exactly 50 usable points and its one row, beside one with 49
\* and no row
C2_Witness ==
    /\ pc = "gate_clean"
    /\ \E t, u \in PresentTickers :
          /\ Usable(raw_data.cols[t]) = 50
          /\ Len(RowsOf(clean_df, t)) = 1
          /\ Usable(raw_data.cols[u]) = 49
          /\ Len(RowsOf(clean_df, u)) = 0

\* ---------------------------------------------------------------------- C3
\* C3: the cleaned frame of a ticker shows, per field and date, the most recent
\* value observed up to that date, and nothing where none was observed yet: an
\* observed value is kept, a gap after the first observation is filled from
\* before it, a leading gap stays missing, a gap-free block is unchanged; no
\* output row stands at a date before the first observed Close.
C3_ForwardFillOnly ==
    /\ pc = "features" =>
         LET col == raw_data.cols[TICKERS[k]]
         IN  /\ Len(df) = Len(col)
             /\ \A i \in 1..Len(col) : \A f \in Fields :
                   LET last == LastObserved(col, f, i)
                   IN  /\ col[i][f] # NaN => df[i][f] = col[i][f]
                       /\ last = 0 => df[i][f] = NaN
                       /\ last # 0 => df[i][f] = col[last][f] /\ df[i][f] # NaN
             /\ (\A i \in 1..Len(col) : \A f \in Fields : col[i][f] # NaN)
                   => df = col
    /\ pc = "gate_clean" =>
         \A j \in 1..Len(clean_df) :
            /\ clean_df[j].Ticker \in PresentTickers
            /\ LastObserved(raw_data.cols[clean_df[j].Ticker], "Close",
                            clean_df[j].Date) # 0

\* a cleaned block with a leading gap left missing and a later gap filled
C3_Witness ==
    /\ pc = "features"
    /\ Len(df) > Window
    /\ df[1]["Close"] = NaN
    /\ \E i \in 2..Len(df) :
          /\ raw_data.cols[TICKERS[k]][i]["Close"] = NaN
          /\ df[i]["Close"] # NaN

\* ---------------------------------------------------------------------- C4
\* C4: for a requested ticker X without an entry in the raw table the
\* transformation reports one skip naming X ("no data found"), gives X no row,
\* does not fail, and returns what the universe without X would give.
C4_AbsentTickerSkipped ==
    /\ pc = "crashed" => Printed("report")
    /\ pc = "gate_clean" =>
         \A X \in AbsentTickers :
            /\ SkipCount(X) = 1
            /\ RowsOf(clean_df, X) = <<>>
            /\ clean_df
                 = TransformData(raw_data, SelectSeq(TICKERS, LAMBDA t : t # X))

\* the first ticker of the list is absent and the next one still gave its rows
C4_Witness ==
    /\ pc = "gate_clean"
    /\ TICKERS[1] \in AbsentTickers
    /\ clean_df # <<>>

\* ---------------------------------------------------------------------- C5
\* C5: while the tickers are processed the raw table does not change and the
\* frames already in the list stay as they are, and the rows of the table
\* transform_data returns are the rows it returns for every order of the universe.
C5_OrderIndependent ==
    [][/\ pc \in {"transform", "features"} =>
            /\ raw_data' = raw_data
            /\ Len(processed_list') >= Len(processed_list)
            /\ SubSeq(processed_list', 1, Len(processed_list)) = processed_list
       /\ (pc = "transform" /\ pc' = "gate_clean") =>
            \A p \in Perms(Universe) :
               RowSet(clean_df') = RowSet(TransformData(raw_data, p))]_vars

\* both tickers gave rows, from blocks with gaps, the example ticker processed last
C5_Witness ==
    /\ pc = "gate_clean"
    /\ TICKERS[Len(TICKERS)] = example_ticker
    /\ \A t \in Universe :
          /\ RowsOf(clean_df, t) # <<>>
          /\ \E i \in 1..raw_data.len : raw_data.cols[t][i]["Close"] = NaN

\* ---------------------------------------------------------------------- C6
\* C6: transform_data is entered only with a non-empty raw table (never after a
\* failed extraction), load_to_sql and generate_report only with a non-empty
\* consolidated table; no empty table is written and no empty chart rendered.
C6_StagesGated ==
    /\ (Printed("transform") \/ pc \in {"transform", "features", "gate_clean"})
          => ~IsEmpty(raw_data) /\ ~Printed("api failure")
    /\ Printed("api failure")
          => ~Printed("transform") /\ ~Printed("store") /\ ~Printed("report")
    /\ (Printed("store") \/ Printed("report") \/ pc \in {"load", "report"})
          => Printed("transform") /\ clean_df # <<>>
    /\ sink.exists => sink.rows # <<>>
    /\ chart.exists => chart.rows # <<>>

\* a first run that transformed a present ticker, kept no row and ended without
\* a write or a chart
C6_Witness ==
    /\ pc = "done"
    /\ run = 1
    /\ Printed("transform")
    /\ PresentTickers # {}
    /\ clean_df = <<>>
    /\ ~Printed("store")
    /\ ~Printed("report")
    /\ ~sink.exists
    /\ ~chart.exists

\* ---------------------------------------------------------------------- C7
\* C7: a run that has ended has printed the terminal status message.
C7_AlwaysCompleted == Exited => Printed("completed")

\* ---------------------------------------------------------------------- C8
\* C8: a run over the same provider data returns the consolidated table the
\* run before it returned; after a committed write the table stock_trends holds
\* exactly the rows of this run's consolidated table, so two committed runs
\* leave the same table.
C8_Idempotent ==
    /\ Printed("committed") => sink = [exists |-> TRUE, rows |-> clean_df]
    /\ (prev.transformed /\ Transformed) => clean_df = prev.clean
    /\ (prev.committed /\ Printed("committed")) => sink = prev.sink

\* a second committed write of a table with rows
C8_Witness ==
    /\ run = 2
    /\ prev.committed
    /\ Printed("committed")
    /\ sink.rows # <<>>

\* ---------------------------------------------------------------------- C9
\* C9: a failing write is reported and the script goes on: the next step is the
\* call of generate_report, with the consolidated table as it was before the
\* write, and the run does not end before that call.
C9_WriteFailureNotFatal ==
    [][/\ (pc = "load" /\ Printed("database error")') =>
            /\ pc' = "report"
            /\ clean_df' = clean_df
       /\ (pc = "report" /\ Printed("database error")) =>
            /\ report_df'.called
            /\ report_df'.rows = clean_df
            /\ clean_df' = clean_df
       /\ (Printed("database error") /\ Exited) => report_df.called]_vars

\* a run whose write failed and whose chart was exported all the same
C9_Witness ==
    /\ pc = "done"
    /\ Printed("database error")
    /\ Printed("chart exported")
    /\ report_df = [called |-> TRUE, rows |-> clean_df]

\* --------------------------------------------------------------------- C10
\* C10 as stated: the tickers a skip was reported for are the tickers without
\* usable data (absent, or fewer than 50 usable points), which are the tickers
\* without a row in the consolidated table.
C10_SkipIffNoRows ==
    pc = "gate_clean" =>
        /\ SkippedSet = {t \in Universe : RowsOf(clean_df, t) = <<>>}
        /\ SkippedSet
             = AbsentTickers
               \cup {t \in PresentTickers : Usable(raw_data.cols[t]) < Window}

\* C10 as amended: a skip is reported for exactly the tickers absent from the raw
\* table; a ticker has no row exactly if it is absent or has fewer than 50 usable
\* points, so a reported ticker has no row, and one with too short a history has
\* no row and no report.
C10_SkipIffAbsent ==
    pc = "gate_clean" =>
        /\ SkippedSet = AbsentTickers
        /\ \A t \in SkippedSet : RowsOf(clean_df, t) = <<>>
        /\ \A t \in Universe :
              RowsOf(clean_df, t) = <<>>
                 <=> \/ t \in AbsentTickers
                     \/ /\ t \in PresentTickers
                        /\ Usable(raw_data.cols[t]) < Window

\* one ticker absent and reported, the other present with 49 usable points:
\* no row, no report
C10_Witness ==
    /\ pc = "gate_clean"
    /\ \E t \in AbsentTickers : t \in SkippedSet
    /\ \E t \in PresentTickers :
          /\ Usable(raw_data.cols[t]) = Window - 1
          /\ RowsOf(clean_df, t) = <<>>
          /\ t \notin SkippedSet

====
